---- MODULE Spec2Model ----
(***************************************************************************)
(* Model of the example notebooks of the OpenFF toolkit repository:        *)
(*   brd4      : BRD4 ligand re-parametrization (openmm-forcefields)       *)
(*   conformer : conformer energies of a small molecule                    *)
(*   amber     : conversion of a System to AMBER / GROMACS files           *)
(*   t4        : toluene in T4 lysozyme (SMIRNOFF + AMBER force fields)    *)
(* A notebook run executes the statements of its code cells from top to    *)
(* bottom; an exception that no try/except of the notebook catches stops   *)
(* the run.  Every statement that calls into an external library is a      *)
(* step; the library's answer (success, exception, returned data) is a     *)
(* nondeterministic input of the step.                                     *)
(***************************************************************************)
EXTENDS Integers, Sequences, FiniteSets, TLC

(* ---------------------------- bounds ----------------------------------- *)
\* longest bond list of an input topology
MaxBonds == 3
\* longest list of molecules read from the conformer SDF file
MaxLoaded == 3
\* longest list of forces of the System searched for its NonbondedForce
MaxForces == 2

VARIABLES
    nb,          \* the notebook being run
    env,         \* which OpenMM namespace the Python environment provides
    pc,          \* index of the next statement of the notebook's program
    status,      \* "running", "done" or "error"
    err,         \* the exception that stopped the run ("none" otherwise)
    failed,      \* label of the statement that raised it ("none" otherwise)
    caught,      \* labels of the statements whose exception an except clause caught
    log,         \* labels of the statements that completed, in execution order
    pdb_bonds,   \* bond list of pdbfile.topology as PDBFile built it
    bonds,       \* topology._bonds, the current bond list of pdbfile.topology
    ligand,      \* the ligand Molecule of the BRD4 notebook
    loaded_molecules, \* result of Molecule.from_file in the conformer notebook
    molecules,   \* the collated molecules of the conformer notebook
    mol_i,       \* position of the loop over molecules (conformer notebook)
    conf_i,      \* position of the loop over molecule.conformers
    output,      \* the rows collected for the CSV file of the current molecule
    systems,     \* python variable name -> the OpenMM System it is bound to
    structures,  \* python variable name -> the ParmEd Structure it is bound to
    force,       \* the loop variable of the search for the NonbondedForce
    r,           \* the last response of requests.get
    files,       \* local files written so far, as [name, content] records
    compared,    \* outcome of the comparisons of the amber notebook
    stdout       \* what the notebook printed, in order

vars == <<nb, env, pc, status, err, failed, caught, log, pdb_bonds, bonds,
          ligand, loaded_molecules, molecules, mol_i, conf_i, output, systems,
          structures, force, r, files, compared, stdout>>

(* ------------------------- statements ---------------------------------- *)
\* A statement: its label, its kind, the code cell it is in and its argument.
\* kinds:  call     an external call with no modelled result
\*         try      an import in the body of try/except ImportError
\*         except   the fallback import of the except ImportError clause
\*         get      r = requests.get(url)
\*         write    open(filename, "w").write(r.text)
\*         copy     shutil.copy(orig_path, ".")
\*         load_pdb PDBFile(...)
\*         fix      the body of fix_water_bonds after its import
\*         ligand   Molecule.from_file("ligand.sdf")
\*         if_none  if ligand.partial_charges is None
\*         patch    the assignment guarded by if_none
\*         create   a call creating an OpenMM System
\*         convert  parmed.openmm.load_topology
\*         add      Structure + Structure
\*         save     Structure.save
\*         reload   parmed.load_file
\*         print    print(...)  /  pprint  pprint(...)
\*         fix_enter  the entry of fix_water_bonds, before its import
\*         step     simulation.step with the trajectory reporter attached
\*         search   for force in omm_system.getForces(): if isinstance: break
\*         force_call  a call of a NonbondedForce method on the loop variable
\*         if_single  if type(loaded_molecules) is not list
\*         out_init / out_append  output = [header] / output.append(row)
\*         from_file  Molecule.from_file of the conformer SDF file
\*         cast     loaded_molecules = [loaded_molecules], guarded by if_single
\*         collate  the conformer collation loop
\*         for_mol / next_mol    head and end of "for molecule in molecules"
\*         for_conf / next_conf  head and end of "for ... in molecule.conformers"
\*         if_noname / name      if molecule.name == "": molecule.name = ...
\*         to_file  mol_copy.to_file(...)  /  csv  the CSV written per molecule
\*         cmp_params / cmp_energies  compare_system_parameters / _energies
St(l, k, c, a) == [l |-> l, k |-> k, cell |-> c, arg |-> a]

NoArg == "-"

\* arguments of a System creation: the variable bound, where the System comes
\* from, and the constraints / rigidWater the call asks for
Sys(var, from, constraints, rigidWater) ==
    [var |-> var, from |-> from, constraints |-> constraints, rigidWater |-> rigidWater]

\* arguments of load_topology: the Structure variable and the System converted
Conv(var, sys) == [var |-> var, sys |-> sys]

(* ---------------------- BRD4 notebook ---------------------------------- *)
\* sources = {"system.pdb": ..., "ligand.sdf": ...}; the loop over
\* sources.items() runs its two statements once per entry, in dict order
sources == <<"system.pdb", "ligand.sdf">>

\* the retrieval loop asking again for a file it already asked for
BRD4Cell1_Retry ==
    <<St("import requests", "call", 1, NoArg)>> \o
    <<St("requests.get system.pdb", "get", 1, sources[1]),
      St("requests.get system.pdb", "get", 1, sources[1]),
      St("write system.pdb", "write", 1, sources[1]),
      St("requests.get ligand.sdf", "get", 1, sources[2]),
      St("write ligand.sdf", "write", 1, sources[2])>>

\* the retrieval loop writing every response to the first file name
BRD4Cell1_SameFile ==
    <<St("import requests", "call", 1, NoArg)>> \o
    <<St("requests.get system.pdb", "get", 1, sources[1]),
      St("write system.pdb", "write", 1, sources[1]),
      St("requests.get ligand.sdf", "get", 1, sources[2]),
      St("write ligand.sdf", "write", 1, sources[1])>>

BRD4Cell1 ==
    <<St("import requests", "call", 1, NoArg)>> \o
    <<St("requests.get system.pdb", "get", 1, sources[1]),
      St("write system.pdb", "write", 1, sources[1]),
      St("requests.get ligand.sdf", "get", 1, sources[2]),
      St("write ligand.sdf", "write", 1, sources[2])>>

\* the call fix_water_bonds(pdbfile.topology) is entered at the statement of
\* kind fix_enter (n_bonds_before), runs the guarded import of hydrogen and
\* completes at the statement of kind fix
BRD4Cell2 ==
    <<St("from openmm.app import PDBFile", "try", 2, NoArg),
      St("from simtk.openmm.app import PDBFile", "except", 2, NoArg),
      St("PDBFile(system.pdb)", "load_pdb", 2, "system.pdb"),
      St("fix_water_bonds", "fix_enter", 2, NoArg),
      St("from openmm.app.element import hydrogen", "try", 2, NoArg),
      St("from simtk.openmm.app.element import hydrogen", "except", 2, NoArg),
      St("fix_water_bonds", "fix", 2, NoArg)>>

BRD4Cell3 ==
    <<St("import numpy", "call", 3, NoArg),
      St("from openmm import unit", "try", 3, NoArg),
      St("from simtk import unit", "except", 3, NoArg),
      St("import Molecule", "call", 3, NoArg),
      St("Molecule.from_file(ligand.sdf)", "ligand", 3, "ligand.sdf"),
      St("if ligand.partial_charges is None", "if_none", 3, NoArg),
      St("ligand.partial_charges = zeros", "patch", 3, NoArg)>>

BRD4Cell4 ==
    <<St("from openmm import app", "try", 4, NoArg),
      St("from simtk.openmm import app", "except", 4, NoArg),
      St("app.ForceField", "call", 4, NoArg),
      St("import SMIRNOFFTemplateGenerator", "call", 4, NoArg),
      St("SMIRNOFFTemplateGenerator", "call", 4, NoArg),
      St("registerTemplateGenerator", "call", 4, NoArg)>>

\* the parametrization cell without rigidWater=False
BRD4Cell5_RigidWater ==
    <<St("forcefield.createSystem", "create", 5,
         Sys("system", "forcefield", "None", TRUE))>>

BRD4Cell5 ==
    <<St("forcefield.createSystem", "create", 5,
         Sys("system", "forcefield", "None", FALSE))>>

BRD4Cell6 ==
    <<St("import parmed", "call", 6, NoArg),
      St("load_topology", "convert", 6, Conv("complex_structure", "system")),
      St("set coordinates", "call", 6, NoArg),
      St("set box_vectors", "call", 6, NoArg)>>

BRD4Cell7 ==
    <<St("save new-system.pdb", "save", 7, "new-system.pdb")>>

BRD4Cell8 ==
    <<St("save complex-openff.prmtop", "save", 8, "complex-openff.prmtop"),
      St("save complex-openff.inpcrd", "save", 8, "complex-openff.inpcrd"),
      St("save complex-openff.gro", "save", 8, "complex-openff.gro"),
      St("save complex-openff.top", "save", 8, "complex-openff.top")>>

BRD4Cell9 ==
    <<St("import NetCDFReporter", "call", 9, NoArg),
      St("from openmm import LangevinIntegrator, app", "try", 9, NoArg),
      St("from simtk.openmm import LangevinIntegrator, app", "except", 9, NoArg),
      St("complex_structure.createSystem", "create", 9,
         Sys("system", "complex_structure", "HBonds", TRUE))>>

BRD4Cell10 ==
    <<St("LangevinIntegrator", "call", 10, NoArg),
      St("app.Simulation", "call", 10, NoArg),
      St("setPositions", "call", 10, NoArg),
      St("NetCDFReporter", "call", 10, NoArg),
      St("reporters.append", "call", 10, NoArg)>>

BRD4Cell11 ==
    <<St("getPotentialEnergy initial", "call", 11, NoArg),
      St("print initial energy", "print", 11, "potential_energy")>>

BRD4Cell12 ==
    <<St("minimizeEnergy", "call", 12, NoArg),
      St("getPositions minimized", "call", 12, NoArg)>>

\* the dynamics cell with its two statements exchanged
BRD4Cell13_StepFirst ==
    <<St("step(1000)", "step", 13, "trajectory.nc"),
      St("setVelocitiesToTemperature", "call", 13, NoArg)>>

BRD4Cell13 ==
    <<St("setVelocitiesToTemperature", "call", 13, NoArg),
      St("step(1000)", "step", 13, "trajectory.nc")>>

BRD4Cell14 ==
    <<St("getPotentialEnergy final", "call", 14, NoArg),
      St("print final energy", "print", 14, "potential_energy")>>

\* the notebook with the parametrization cell ahead of the registration cell
BRD4Program_CreateBeforeRegister ==
    BRD4Cell1 \o BRD4Cell2 \o BRD4Cell3 \o BRD4Cell5 \o BRD4Cell4 \o
    BRD4Cell6 \o BRD4Cell7 \o BRD4Cell8 \o BRD4Cell9 \o BRD4Cell10 \o
    BRD4Cell11 \o BRD4Cell12 \o BRD4Cell13 \o BRD4Cell14

BRD4Program ==
    BRD4Cell1 \o BRD4Cell2 \o BRD4Cell3 \o BRD4Cell4 \o BRD4Cell5 \o
    BRD4Cell6 \o BRD4Cell7 \o BRD4Cell8 \o BRD4Cell9 \o BRD4Cell10 \o
    BRD4Cell11 \o BRD4Cell12 \o BRD4Cell13 \o BRD4Cell14

(* -------------------- conformer energies notebook ---------------------- *)
ConfCell1 ==
    <<St("import shutil", "call", 1, NoArg),
      St("import numpy", "call", 1, NoArg),
      St("from rdkit.Chem import rdMolAlign", "call", 1, NoArg),
      St("import openmm", "try", 1, NoArg),
      St("from simtk import openmm, unit", "except", 1, NoArg),
      St("import Molecule, Topology", "call", 1, NoArg),
      St("import RDKitToolkitWrapper", "call", 1, NoArg)>>

ConfCell2 ==
    <<St("RDKitToolkitWrapper", "call", 2, NoArg),
      St("get_data_file_path", "call", 2, NoArg),
      St("shutil.copy", "copy", 2, "ruxolitinib_conformers.sdf"),
      St("Molecule.from_file(conformers)", "from_file", 2, "ruxolitinib_conformers.sdf"),
      St("if type(loaded_molecules) is not list", "if_single", 2, NoArg),
      St("cast to list", "cast", 2, NoArg),
      St("collate conformers", "collate", 2, NoArg),
      St("print unique molecules", "print", 2, "n_molecules")>>

ConfCell3 ==
    <<St("import ForceField", "call", 3, NoArg),
      St("ForceField(unconstrained)", "call", 3, NoArg)>>

ConfCell4 ==
    <<St("for molecule in molecules", "for_mol", 4, "end for molecule"),
      St("if molecule.name is empty", "if_noname", 4, NoArg),
      St("molecule.name = hill formula", "name", 4, NoArg),
      St("print molecule", "print", 4, "molecule"),
      St("Molecule(molecule)", "call", 4, NoArg),
      St("molecule.to_topology", "call", 4, NoArg),
      St("print parametrizing", "print", 4, "parametrizing"),
      St("create_openmm_system", "create", 4,
         Sys("system", "forcefield", "None", FALSE)),
      St("VerletIntegrator", "call", 4, NoArg),
      St("getPlatformByName", "call", 4, NoArg),
      St("off_top.to_openmm", "call", 4, NoArg),
      St("openmm.app.Simulation", "call", 4, NoArg),
      St("print header", "print", 4, "header"),
      St("output = [header]", "out_init", 4, NoArg),
      St("for conformer in molecule.conformers", "for_conf", 4, "end for conformer"),
      St("setPositions(conformer)", "call", 4, NoArg),
      St("getPotentialEnergy orig", "call", 4, NoArg),
      St("minimizeEnergy conformer", "call", 4, NoArg),
      St("getState minimized", "call", 4, NoArg),
      St("add_conformer(conformer)", "call", 4, NoArg),
      St("add_conformer(min_coords)", "call", 4, NoArg),
      St("to_rdkit", "call", 4, NoArg),
      St("AlignMolConformers", "call", 4, NoArg),
      St("add_conformer(min_coords) again", "call", 4, NoArg),
      St("mol_copy.to_file", "to_file", 4, NoArg),
      St("print conformer energies", "print", 4, "conformer"),
      St("output.append", "out_append", 4, NoArg),
      St("end for conformer", "next_conf", 4, "for conformer in molecule.conformers"),
      St("write csv", "csv", 4, NoArg),
      St("end for molecule", "next_mol", 4, "for molecule in molecules")>>

ConformerProgram == ConfCell1 \o ConfCell2 \o ConfCell3 \o ConfCell4

(* ------------------- AMBER / GROMACS conversion notebook --------------- *)
AmberCell1 ==
    <<St("from openmm.app import PDBFile", "try", 1, NoArg),
      St("from simtk.openmm.app import PDBFile", "except", 1, NoArg),
      St("import Molecule, Topology", "call", 1, NoArg),
      St("import ForceField", "call", 1, NoArg)>>

AmberCell2 ==
    <<St("from_smiles ethanol", "call", 2, NoArg),
      St("from_smiles cyclohexane", "call", 2, NoArg),
      St("PDBFile(1_cyclohexane_1_ethanol.pdb)", "call", 2, NoArg),
      St("Topology.from_openmm", "call", 2, NoArg)>>

AmberCell3 ==
    <<St("ForceField(unconstrained)", "call", 3, NoArg),
      St("create_openmm_system", "create", 3,
         Sys("omm_system", "forcefield", "None", FALSE))>>

AmberCell4 ==
    <<St("import parmed", "call", 4, NoArg),
      St("load_topology", "convert", 4, Conv("parmed_structure", "omm_system"))>>

AmberCell5 ==
    <<St("save system.prmtop", "save", 5, "system.prmtop"),
      St("save system.inpcrd", "save", 5, "system.inpcrd"),
      St("save system.top", "save", 5, "system.top"),
      St("save system.gro", "save", 5, "system.gro")>>

AmberCell6 ==
    <<St("import openmm", "try", 6, NoArg),
      St("from simtk import openmm", "except", 6, NoArg),
      St("for force in getForces", "search", 6, NoArg),
      St("force.getCutoffDistance", "force_call", 6, NoArg),
      St("print cutoff", "print", 6, "cutoff"),
      St("force.getUseSwitchingFunction", "force_call", 6, NoArg),
      St("print switching", "print", 6, "switching"),
      St("force.getNonbondedMethod", "force_call", 6, NoArg),
      St("print method is PME", "print", 6, "method")>>

\* the validation cell without the call of compare_system_parameters
AmberCell7_NoParameterComparison ==
    <<St("from openmm import unit, PME, HBonds", "try", 7, NoArg),
      St("from simtk import unit, PME, HBonds", "except", 7, NoArg),
      St("import compare_system_energies, compare_system_parameters", "call", 7, NoArg),
      St("parmed.load_file", "reload", 7, "amber_structure"),
      St("amber_structure.createSystem", "create", 7,
         Sys("amber_system", "amber_structure", "HBonds", TRUE)),
      St("compare_system_energies", "cmp_energies", 7, NoArg)>>

AmberCell7 ==
    <<St("from openmm import unit, PME, HBonds", "try", 7, NoArg),
      St("from simtk import unit, PME, HBonds", "except", 7, NoArg),
      St("import compare_system_energies, compare_system_parameters", "call", 7, NoArg),
      St("parmed.load_file", "reload", 7, "amber_structure"),
      St("amber_structure.createSystem", "create", 7,
         Sys("amber_system", "amber_structure", "HBonds", TRUE)),
      St("compare_system_parameters", "cmp_params", 7, NoArg),
      St("compare_system_energies", "cmp_energies", 7, NoArg)>>

AmberCell8 ==
    <<St("import pprint", "call", 8, NoArg),
      St("print System loaded from AMBER files:", "print", 8, "amber header"),
      St("print amber rule", "print", 8, "amber rule"),
      St("pprint amber_energies", "pprint", 8, "amber_energies"),
      St("print Original OpenMM System:", "print", 8, "original header"),
      St("print original rule", "print", 8, "original rule"),
      St("pprint omm_energies", "pprint", 8, "omm_energies")>>

AmberProgram ==
    AmberCell1 \o AmberCell2 \o AmberCell3 \o AmberCell4 \o AmberCell5 \o
    AmberCell6 \o AmberCell7 \o AmberCell8

(* ------------------- toluene in T4 lysozyme notebook ------------------- *)
T4Cell1 ==
    <<St("from openmm import app, unit", "try", 1, NoArg),
      St("from simtk import unit, app", "except", 1, NoArg),
      St("import Molecule, Topology", "call", 1, NoArg),
      St("import ForceField", "call", 1, NoArg),
      St("import get_data_file_path", "call", 1, NoArg)>>

T4Cell2 ==
    <<St("get_data_file_path toluene", "call", 2, NoArg),
      St("PDBFile(toluene.pdb)", "call", 2, NoArg),
      St("from_smiles toluene", "call", 2, NoArg),
      St("Topology.from_openmm", "call", 2, NoArg),
      St("ForceField(unconstrained)", "call", 2, NoArg),
      St("create_openmm_system", "create", 2,
         Sys("toluene_system", "force_field", "None", FALSE))>>

T4Cell3 ==
    <<St("import parmed", "call", 3, NoArg),
      St("load_topology toluene", "convert", 3, Conv("toluene_structure", "toluene_system"))>>

T4Cell4 ==
    <<St("app.ForceField", "call", 4, NoArg),
      St("get_data_file_path t4", "call", 4, NoArg),
      St("PDBFile(T4_lysozyme_water_ions.pdb)", "call", 4, NoArg),
      St("getTopology", "call", 4, NoArg),
      St("getPositions", "call", 4, NoArg)>>

T4Cell5 ==
    <<St("omm_forcefield.createSystem", "create", 5,
         Sys("t4_system", "omm_forcefield", "None", FALSE)),
      St("load_topology t4", "convert", 5, Conv("t4_structure", "t4_system"))>>

T4Cell6 ==
    <<St("toluene_structure + t4_structure", "add", 6, "complex_structure")>>

T4Cell7 ==
    <<St("complex_structure.createSystem", "create", 7,
         Sys("complex_system", "complex_structure", "HBonds", TRUE))>>

T4Program ==
    T4Cell1 \o T4Cell2 \o T4Cell3 \o T4Cell4 \o T4Cell5 \o T4Cell6 \o T4Cell7

(* ------------------------- programs ------------------------------------ *)
Notebooks == {"brd4", "conformer", "amber", "t4"}

Program(n) ==
    CASE n = "brd4" -> BRD4Program
      [] n = "conformer" -> ConformerProgram
      [] n = "amber" -> AmberProgram
      [] n = "t4" -> T4Program

(* --------------------------- data -------------------------------------- *)
\* openmm.app.element.hydrogen
hydrogen == "H"

\* the bonds a topology read from a PDB file may hold.  fix_water_bonds reads
\* of a bond only whether atom1 and whether atom2 is a hydrogen; there is a
\* bond for each outcome of that test, in a water and in another residue:
\*   C-H of a ligand: atom1 is no hydrogen (the test stops at its first
\*                    operand), kept, not of a water;
\*   H-O of a water:  atom1 is a hydrogen and atom2 is none (the second
\*                    operand is false), kept, of a water;
\*   H-H of a water:  both operands true, removed (the H1-H2 bond);
\*   H-H of a hydrogen molecule: both operands true, removed, not of a water
BondKinds ==
    { [atom1 |-> "C", atom2 |-> "H", residue |-> "LIG"],
      [atom1 |-> "H", atom2 |-> "O", residue |-> "HOH"],
      [atom1 |-> "H", atom2 |-> "H", residue |-> "HOH"],
      [atom1 |-> "H", atom2 |-> "H", residue |-> "H2"] }

\* a Bond object: the bond of a kind together with its identity (the position
\* at which PDBFile added it to the topology)
Bond(i, k) == [id |-> i, atom1 |-> k.atom1, atom2 |-> k.atom2, residue |-> k.residue]

SeqsUpTo(S, n) == UNION { [1..m -> S] : m \in 0..n }

\* the bond lists PDBFile may build
Topologies ==
    { [i \in 1..Len(ks) |-> Bond(i, ks[i])] : ks \in SeqsUpTo(BondKinds, MaxBonds) }

\* the molecules the conformer SDF file may hold, one record per SDF entry:
\* the molecule it is (Molecule.__eq__ compares this), its name, its conformer
MoleculeKinds == {"A", "B"}

SdfName(k) == IF k = "A" THEN "ruxolitinib" ELSE "other"

SdfEntries ==
    { [kind |-> k, name |-> n] : k \in MoleculeKinds, n \in {"", "named"} }

Loaded(i, e) ==
    [kind |-> e.kind,
     name |-> IF e.name = "" THEN "" ELSE SdfName(e.kind),
     conformers |-> <<i>>]

\* Molecule.from_file returns one Molecule when the file holds one entry and
\* a list of Molecules when it holds several
FromFileResults ==
    { [is_list |-> Len(es) > 1, mols |-> [i \in 1..Len(es) |-> Loaded(i, es[i])]] :
        es \in (SeqsUpTo(SdfEntries, MaxLoaded) \ {<<>>}) }

NotLoaded == [is_list |-> FALSE, mols |-> <<>>]

SystemVars ==
    {"system", "omm_system", "amber_system", "toluene_system", "t4_system",
     "complex_system"}

StructureVars ==
    {"complex_structure", "parmed_structure", "amber_structure",
     "toluene_structure", "t4_structure"}

\* a System / Structure variable before its assignment
Unbound == [bound |-> FALSE, from |-> "-", constraints |-> "None", rigidWater |-> FALSE]

(* ---------------------- fix_water_bonds -------------------------------- *)
\* the selection with "or" between the two element tests
bonds_to_delete_EitherHydrogen(bs) ==
    SelectSeq([i \in 1..Len(bs) |-> i],
              LAMBDA i : (bs[i].atom1 = hydrogen) \/ (bs[i].atom2 = hydrogen))

\* [index for (index, bond) in enumerate(topology.bonds()) if both atoms are hydrogen]
bonds_to_delete(bs) ==
    SelectSeq([i \in 1..Len(bs) |-> i],
              LAMBDA i : (bs[i].atom1 = hydrogen) /\ (bs[i].atom2 = hydrogen))

\* the index list left in ascending order
reverse_Skipped(s) == s

\* list.reverse()
reverse(s) == [i \in 1..Len(s) |-> s[Len(s) + 1 - i]]

\* the list without its element at position at (counted from 1)
Without(s, at) == [j \in 1..(Len(s) - 1) |-> IF j < at THEN s[j] ELSE s[j + 1]]

\* list.pop(index); index is the model's position, the Python index plus 1.
\* A Python index in 0..len-1 pops that element, one in -len..-1 pops from
\* the end, any other raises IndexError and leaves the list as it is.
pop(s, index) ==
    LET python_index == index - 1
        n == Len(s)
    IN IF python_index \in 0..(n - 1)
       THEN [list |-> Without(s, python_index + 1), raised |-> FALSE]
       ELSE IF python_index \in (0 - n)..(0 - 1)
       THEN [list |-> Without(s, n + python_index + 1), raised |-> FALSE]
       ELSE [list |-> s, raised |-> TRUE]

\* for index in bonds_to_delete: topology._bonds.pop(index)
\* the loop ends at the first pop that raises
RECURSIVE pop_each(_, _)
pop_each(s, indices) ==
    IF indices = <<>> THEN [list |-> s, raised |-> FALSE]
    ELSE LET popped == pop(s, Head(indices))
         IN IF popped.raised THEN popped
            ELSE pop_each(popped.list, Tail(indices))

\* the bond list after fix_water_bonds and the number it prints; when a pop
\* raises IndexError the function is left with the list as it then is and
\* prints nothing
fix_water_bonds(bs) ==
    LET n_bonds_before == Len(bs)
        after == pop_each(bs, reverse(bonds_to_delete(bs)))
        n_bonds_after == Len(after.list)
    IN [bonds |-> after.list,
        printed |-> n_bonds_before - n_bonds_after,
        raised |-> after.raised]

(* ---------------------- conformer collation ---------------------------- *)
\* Molecule.__eq__ : the same molecule, whatever its name and conformers
MoleculeEq(m1, m2) == m1.kind = m2.kind

\* the forces omm_system.getForces() may return: a list of forces, each a
\* NonbondedForce or a force of another class
ForceKinds == {"NonbondedForce", "HarmonicBondForce"}

ForceLists == SeqsUpTo(ForceKinds, MaxForces)

\* the loop variable before the loop has run
NoSearch == [forces |-> <<>>, force |-> "unbound", tested |-> 0]

\* for force in omm_system.getForces():
\*     if isinstance(force, openmm.NonbondedForce): break
\* from the i-th force on: the loop leaves `force` bound to the first
\* NonbondedForce, or to the last force when there is none, or unbound when
\* there is no force; tested counts the isinstance tests
RECURSIVE search_loop(_, _)
search_loop(fs, i) ==
    IF i > Len(fs)
    THEN [forces |-> fs,
          force |-> IF fs = <<>> THEN "unbound" ELSE fs[Len(fs)],
          tested |-> Len(fs)]
    ELSE IF fs[i] = "NonbondedForce"
         THEN [forces |-> fs, force |-> fs[i], tested |-> i]
         ELSE search_loop(fs, i + 1)

\* for conformer in molecule.conformers: target.add_conformer(conformer)
add_conformers(target, molecule) ==
    [target EXCEPT !.conformers = target.conformers \o molecule.conformers]

\* the loop "for molecule in loaded_molecules[1:]"
RECURSIVE collate_loop(_, _)
collate_loop(mols, rest) ==
    IF rest = <<>> THEN mols
    ELSE LET molecule == Head(rest)
             last == mols[Len(mols)]
         IN IF MoleculeEq(molecule, last)
            THEN collate_loop([mols EXCEPT ![Len(mols)] = add_conformers(last, molecule)],
                              Tail(rest))
            ELSE collate_loop(Append(mols, molecule), Tail(rest))

\* molecules = [loaded_molecules[0]] followed by the loop
collate(loaded) == collate_loop(<<loaded[1]>>, Tail(loaded))

RECURSIVE SumConformers(_)
SumConformers(mols) ==
    IF mols = <<>> THEN 0
    ELSE Len(Head(mols).conformers) + SumConformers(Tail(mols))

(* ------------------------ initial state -------------------------------- *)
\* the Python environment offers the openmm namespace, only the older
\* simtk.openmm namespace, or neither
Environments == {"openmm", "simtk", "none"}

Init ==
    /\ nb \in Notebooks
    /\ env \in Environments
    /\ pc = 1
    /\ status = "running"
    /\ err = "none"
    /\ failed = "none"
    /\ caught = {}
    /\ log = <<>>
    /\ pdb_bonds = <<>>
    /\ bonds = <<>>
    /\ ligand = [bound |-> FALSE, partial_charges |-> "None"]
    /\ loaded_molecules = NotLoaded
    /\ molecules = <<>>
    /\ mol_i = 0
    /\ conf_i = 0
    /\ output = <<>>
    /\ systems = [v \in SystemVars |-> Unbound]
    /\ structures = [v \in StructureVars |-> Unbound]
    /\ force = NoSearch
    /\ r = [file |-> "-", status_code |-> 0]
    /\ files = {}
    /\ compared = [parameters |-> "-", energies |-> "-"]
    /\ stdout = <<>>

(* ------------------------ execution ------------------------------------ *)
Prog == Program(nb)
Cur == Prog[pc]

\* the run is at a statement of kind k
At(k) == status = "running" /\ Cur.k = k

IndexOf(label) == CHOOSE i \in 1..Len(Prog) : Prog[i].l = label

\* control moves to statement `to`; past the last statement the run is done
Goto(to) ==
    /\ pc' = to
    /\ status' = IF to > Len(Prog) THEN "done" ELSE "running"

\* the current statement completes and control moves to `to`
Ok(to) ==
    /\ log' = Append(log, Cur.l)
    /\ Goto(to)
    /\ UNCHANGED <<nb, env, err, failed>>

\* an exception that is recorded while the run goes on with the next statement
Fail_Continue(e) ==
    /\ err' = e
    /\ failed' = Cur.l
    /\ Goto(pc + 1)
    /\ UNCHANGED <<nb, env, log>>

\* the current statement raises e and nothing catches it: the run stops
Fail(e) ==
    /\ status' = "error"
    /\ err' = e
    /\ failed' = Cur.l
    /\ UNCHANGED <<nb, env, pc, log>>

topo == <<pdb_bonds, bonds>>
confv == <<loaded_molecules, molecules, mol_i, conf_i, output>>
ffv == <<systems, structures, force>>
iov == <<r, files, stdout>>
data == <<caught, topo, ligand, confv, ffv, iov, compared>>

\* what a file holds when the writing of content t stopped partway
Partial(t) == "part of " \o t

\* a file written with the n rows of output
Lines(n) == ToString(n) \o " lines"

HasFile(name) == \E f \in files : f.name = name

WriteFile(name, content) ==
    {f \in files : f.name # name} \cup {[name |-> name, content |-> content]}

OutLine(what, n, m) == [what |-> what, n |-> n, m |-> m]

\* statements that call into a library, which may raise: all but the cast
\* (type() of a value), the head of the loop over the list molecules and
\* the ends of the loop bodies.  A guarded import may raise something that
\* is not an ImportError, which its except clause does not catch.
RaisingKinds ==
    {"call", "get", "write", "copy", "load_pdb", "ligand", "patch", "create",
     "convert", "add", "save", "reload", "from_file", "name", "to_file", "csv",
     "cmp_params", "cmp_energies", "collate", "fix", "print", "if_none",
     "if_noname", "for_conf", "try", "except", "fix_enter", "step",
     "search", "force_call", "pprint", "out_append"}

\* statements that have changed data by the time their library call raises
PartialKinds ==
    {"write", "csv", "fix", "collate", "copy", "to_file", "save", "step",
     "pprint"}

\* print statements whose only argument is a string literal: no library call
LiteralPrints ==
    {"header", "amber header", "amber rule", "original header", "original rule"}

\* a library call raises before the statement has changed anything; no
\* statement of the notebooks is inside a try block except the guarded imports.
\* The statements of PartialKinds have their own raising actions.
Raise ==
    /\ status = "running"
    /\ Cur.k \in RaisingKinds \ PartialKinds
    /\ ~(Cur.k = "print" /\ Cur.arg \in LiteralPrints)
    /\ Fail("LibraryError")
    /\ UNCHANGED data

\* an external call whose result the model does not follow
Call ==
    /\ At("call")
    /\ Ok(pc + 1)
    /\ UNCHANGED data

\* try: from openmm ... import ...   succeeds, the except clause is skipped
TryImport ==
    /\ At("try")
    /\ env = "openmm"
    /\ Ok(pc + 2)
    /\ UNCHANGED data

\* try: from openmm ... import ...   raises ImportError, caught by
\* except ImportError: control enters the except clause
ImportCaught ==
    /\ At("try")
    /\ env # "openmm"
    /\ caught' = caught \cup {Cur.l}
    /\ pc' = pc + 1
    /\ UNCHANGED <<nb, env, status, err, failed, log>>
    /\ UNCHANGED <<topo, ligand, confv, ffv, iov, compared>>

\* except ImportError: from simtk ... import ...   succeeds
ExceptImport ==
    /\ At("except")
    /\ env = "simtk"
    /\ Ok(pc + 1)
    /\ UNCHANGED data

\* except ImportError: from simtk ... import ...   raises ImportError itself
ExceptImportFails ==
    /\ At("except")
    /\ env # "simtk"
    /\ Fail("ImportError")
    /\ UNCHANGED data

(* ---------------- BRD4: retrieval, topology, ligand -------------------- *)
\* r = requests.get(url): the server answers with some status; requests.get
\* returns the response whatever the status is
StatusCodes == {200, 404}

Get ==
    /\ At("get")
    /\ \E code \in StatusCodes : r' = [file |-> Cur.arg, status_code |-> code]
    /\ Ok(pc + 1)
    /\ UNCHANGED <<caught, topo, ligand, confv, ffv, files, stdout, compared>>

\* r.text: the body of the response, the file asked for or the error page
Text(resp) == IF resp.status_code = 200 THEN "file" ELSE "error page"

\* what the file can hold once open(filename, "w").write(text) has
\* completed: the statement never closes the file, the buffer is flushed
\* when the file object is discarded and an error of that flush is ignored,
\* so the file holds the text, a part of it or nothing
Flushed(text) == {text, Partial(text), ""}

\* open(filename, "w").write(r.text)
Write ==
    /\ At("write")
    /\ \E content \in Flushed(Text(r)) : files' = WriteFile(Cur.arg, content)
    /\ Ok(pc + 1)
    /\ UNCHANGED <<caught, topo, ligand, confv, ffv, r, stdout, compared>>

\* what is left of a file whose writing raised: nothing changed (open
\* raised), the file created or truncated and empty, or a part of the content
Interrupted(name, content) ==
    {files, WriteFile(name, ""), WriteFile(name, Partial(content))}

\* open(filename, "w").write(r.text) raises: open itself, r.text after open
\* has created or truncated the file, or write after a part is written
WriteRaises ==
    /\ At("write")
    /\ files' \in Interrupted(Cur.arg, Text(r))
    /\ Fail("LibraryError")
    /\ UNCHANGED <<caught, topo, ligand, confv, ffv, r, stdout, compared>>

\* pdbfile = PDBFile(system_pdb): builds the topology the file describes
LoadPdb ==
    /\ At("load_pdb")
    /\ IF HasFile(Cur.arg)
       THEN /\ \E t \in Topologies : pdb_bonds' = t /\ bonds' = t
            /\ Ok(pc + 1)
       ELSE /\ Fail("FileNotFoundError")
            /\ UNCHANGED topo
    /\ UNCHANGED <<caught, ligand, confv, ffv, iov, compared>>

\* fix_water_bonds(pdbfile.topology) is entered: n_bonds_before counts
\* topology.bonds(), which nothing changes before the bonds are popped, and
\* control goes to the guarded import of hydrogen.  The call is logged when
\* it completes.
FixEnter ==
    /\ At("fix_enter")
    /\ pc' = pc + 1
    /\ UNCHANGED <<nb, env, status, err, failed, log>>
    /\ UNCHANGED data

\* the rest of fix_water_bonds(pdbfile.topology), once hydrogen is imported
Fix ==
    /\ At("fix")
    /\ LET res == fix_water_bonds(bonds)
       IN /\ bonds' = res.bonds
          /\ IF res.raised
             THEN /\ Fail("IndexError")
                  /\ UNCHANGED stdout
             ELSE /\ stdout' = Append(stdout, OutLine("H-H bonds removed", res.printed, 0))
                  /\ Ok(pc + 1)
    /\ UNCHANGED <<caught, pdb_bonds, ligand, confv, ffv, r, files, compared>>

\* a library call of fix_water_bonds raises: topology.bonds() or an element
\* test before any bond is popped, or topology.bonds() of the final count,
\* when the bonds are popped and nothing is printed yet
FixRaises ==
    /\ At("fix")
    /\ \E popped \in BOOLEAN :
          bonds' = IF popped THEN fix_water_bonds(bonds).bonds ELSE bonds
    /\ Fail("LibraryError")
    /\ UNCHANGED <<caught, pdb_bonds, ligand, confv, ffv, iov, compared>>

\* ligand = Molecule.from_file("ligand.sdf"): the SDF entry carries partial
\* charges or not
Ligand ==
    /\ At("ligand")
    /\ IF HasFile(Cur.arg)
       THEN /\ \E ch \in {"None", "from file"} :
                  ligand' = [bound |-> TRUE, partial_charges |-> ch]
            /\ Ok(pc + 1)
       ELSE /\ Fail("FileNotFoundError")
            /\ UNCHANGED ligand
    /\ UNCHANGED <<caught, topo, confv, ffv, iov, compared>>

\* if ligand.partial_charges is None:
IfNone ==
    /\ At("if_none")
    /\ Ok(IF ligand.partial_charges = "None" THEN pc + 1 ELSE pc + 2)
    /\ UNCHANGED data

\*     ligand.partial_charges = np.zeros([ligand.n_particles]) * unit.elementary_charge
Patch ==
    /\ At("patch")
    /\ ligand' = [ligand EXCEPT !.partial_charges = "zeros"]
    /\ Ok(pc + 1)
    /\ UNCHANGED <<caught, topo, confv, ffv, iov, compared>>

(* ---------------- Systems, Structures, files --------------------------- *)
\* a System is created by a force field (forcefield.createSystem,
\* create_openmm_system) or from a Structure (Structure.createSystem)
Create ==
    /\ At("create")
    /\ LET a == Cur.arg
       IN IF a.from \in StructureVars /\ ~structures[a.from].bound
          THEN Fail("NameError") /\ UNCHANGED systems
          ELSE /\ systems' = [systems EXCEPT ![a.var] =
                       [bound |-> TRUE, from |-> a.from,
                        constraints |-> a.constraints, rigidWater |-> a.rigidWater]]
               /\ Ok(pc + 1)
    /\ UNCHANGED <<caught, topo, ligand, confv, structures, force, iov, compared>>

\* parmed.openmm.load_topology(topology, system): the Structure takes the
\* parameters of the System, so it records how that System was created
Convert ==
    /\ At("convert")
    /\ LET a == Cur.arg
       IN IF ~systems[a.sys].bound
          THEN Fail("NameError") /\ UNCHANGED structures
          ELSE /\ structures' = [structures EXCEPT ![a.var] =
                       [bound |-> TRUE, from |-> a.sys,
                        constraints |-> systems[a.sys].constraints,
                        rigidWater |-> systems[a.sys].rigidWater]]
               /\ Ok(pc + 1)
    /\ UNCHANGED <<caught, topo, ligand, confv, systems, force, iov, compared>>

\* complex_structure = toluene_structure + t4_structure
Add ==
    /\ At("add")
    /\ LET a == structures["toluene_structure"]
           b == structures["t4_structure"]
       IN IF ~a.bound \/ ~b.bound
          THEN Fail("NameError") /\ UNCHANGED structures
          ELSE /\ structures' = [structures EXCEPT ![Cur.arg] =
                       [bound |-> TRUE, from |-> "+",
                        constraints |-> IF a.constraints = "None" THEN b.constraints
                                        ELSE a.constraints,
                        rigidWater |-> a.rigidWater \/ b.rigidWater]]
               /\ Ok(pc + 1)
    /\ UNCHANGED <<caught, topo, ligand, confv, systems, force, iov, compared>>

\* the Structure variable the notebook saves: complex_structure in the BRD4
\* notebook, parmed_structure in the conversion notebook
SavedStructure == IF nb = "brd4" THEN "complex_structure" ELSE "parmed_structure"

\* structure.save(filename, overwrite=True)
Save ==
    /\ At("save")
    /\ IF ~structures[SavedStructure].bound
       THEN Fail("NameError") /\ UNCHANGED files
       ELSE /\ files' = WriteFile(Cur.arg, SavedStructure)
            /\ Ok(pc + 1)
    /\ UNCHANGED <<caught, topo, ligand, confv, ffv, r, stdout, compared>>

\* save raises: before it has opened the file, or after, which leaves the
\* file empty or partly written
SaveRaises ==
    /\ At("save")
    /\ structures[SavedStructure].bound
    /\ files' \in Interrupted(Cur.arg, SavedStructure)
    /\ Fail("LibraryError")
    /\ UNCHANGED <<caught, topo, ligand, confv, ffv, r, stdout, compared>>

\* amber_structure = parmed.load_file("system.prmtop", "system.inpcrd")
Reload ==
    /\ At("reload")
    /\ IF ~(HasFile("system.prmtop") /\ HasFile("system.inpcrd"))
       THEN Fail("FileNotFoundError") /\ UNCHANGED structures
       ELSE /\ structures' = [structures EXCEPT ![Cur.arg] =
                    [bound |-> TRUE, from |-> "system.prmtop",
                     constraints |-> "None", rigidWater |-> FALSE]]
            /\ Ok(pc + 1)
    /\ UNCHANGED <<caught, topo, ligand, confv, systems, force, iov, compared>>

(* ---------------- conformer notebook ----------------------------------- *)
\* shutil.copy(orig_path, ".")
Copy ==
    /\ At("copy")
    /\ files' = WriteFile(Cur.arg, "sdf")
    /\ Ok(pc + 1)
    /\ UNCHANGED <<caught, topo, ligand, confv, ffv, r, stdout, compared>>

\* shutil.copy raises: before it has created the destination, while it
\* copies, which leaves the destination empty or partly written, or, as it
\* copies the content first and the permission bits after, when the content
\* is there in full and the permission bits cannot be set
CopyRaises ==
    /\ At("copy")
    /\ files' \in Interrupted(Cur.arg, "sdf") \cup {WriteFile(Cur.arg, "sdf")}
    /\ Fail("LibraryError")
    /\ UNCHANGED <<caught, topo, ligand, confv, ffv, r, stdout, compared>>

\* loaded_molecules = Molecule.from_file("ruxolitinib_conformers.sdf", ...)
FromFile ==
    /\ At("from_file")
    /\ IF HasFile(Cur.arg)
       THEN /\ \E res \in FromFileResults : loaded_molecules' = res
            /\ Ok(pc + 1)
       ELSE /\ Fail("FileNotFoundError")
            /\ UNCHANGED loaded_molecules
    /\ UNCHANGED <<caught, topo, ligand, molecules, mol_i, conf_i, output, ffv, iov, compared>>

\* if type(loaded_molecules) is not list:
IfSingle ==
    /\ At("if_single")
    /\ Ok(IF ~loaded_molecules.is_list THEN pc + 1 ELSE pc + 2)
    /\ UNCHANGED data

\*     loaded_molecules = [loaded_molecules]
Cast ==
    /\ At("cast")
    /\ loaded_molecules' = [loaded_molecules EXCEPT !.is_list = TRUE]
    /\ Ok(pc + 1)
    /\ UNCHANGED <<caught, topo, ligand, molecules, mol_i, conf_i, output, ffv, iov, compared>>

\* Every element of molecules is one of the objects of loaded_molecules (it
\* was put there by molecules = [loaded_molecules[0]] or molecules.append),
\* so what is done to it shows in loaded_molecules too.  The object is the
\* one loaded at the position of its first conformer.
Aliased(loaded, mols) ==
    [j \in 1..Len(loaded) |->
        IF \E m \in 1..Len(mols) : Head(mols[m].conformers) = j
        THEN mols[CHOOSE m \in 1..Len(mols) : Head(mols[m].conformers) = j]
        ELSE loaded[j]]

\* the collation loop; indexing something that is not a list is a TypeError
\* and loaded_molecules[0] of an empty list an IndexError.
Collate ==
    /\ At("collate")
    /\ IF loaded_molecules.is_list /\ loaded_molecules.mols # <<>>
       THEN /\ molecules' = collate(loaded_molecules.mols)
            /\ loaded_molecules' =
                  [loaded_molecules EXCEPT !.mols = Aliased(loaded_molecules.mols, molecules')]
            /\ Ok(pc + 1)
       ELSE /\ Fail(IF loaded_molecules.is_list THEN "IndexError" ELSE "TypeError")
            /\ UNCHANGED <<molecules, loaded_molecules>>
    /\ UNCHANGED <<caught, topo, ligand, mol_i, conf_i, output, ffv, iov, compared>>

\* a library call of the collation loop (Molecule.__eq__, add_conformer)
\* raises at some molecule after the first: the molecules before it are
\* collated
CollateRaises ==
    /\ At("collate")
    /\ loaded_molecules.is_list
    /\ \E k \in 1..(Len(loaded_molecules.mols) - 1) :
          /\ molecules' = collate(SubSeq(loaded_molecules.mols, 1, k))
          /\ loaded_molecules' =
                [loaded_molecules EXCEPT !.mols = Aliased(loaded_molecules.mols, molecules')]
    /\ Fail("LibraryError")
    /\ UNCHANGED <<caught, topo, ligand, mol_i, conf_i, output, ffv, iov, compared>>

\* for molecule in molecules:
ForMol ==
    /\ At("for_mol")
    /\ IF mol_i < Len(molecules)
       THEN /\ mol_i' = mol_i + 1
            /\ Ok(pc + 1)
       ELSE /\ mol_i' = mol_i
            /\ Ok(IndexOf(Cur.arg) + 1)
    /\ conf_i' = 0
    /\ UNCHANGED <<caught, topo, ligand, loaded_molecules, molecules, output, ffv, iov, compared>>

\* if molecule.name == "":
IfNoName ==
    /\ At("if_noname")
    /\ Ok(IF molecules[mol_i].name = "" THEN pc + 1 ELSE pc + 2)
    /\ UNCHANGED data

\*     molecule.name = Topology._networkx_to_hill_formula(molecule.to_networkx())
Name ==
    /\ At("name")
    /\ molecules' = [molecules EXCEPT ![mol_i].name = "hill_" \o molecules[mol_i].kind]
    /\ loaded_molecules' =
          [loaded_molecules EXCEPT !.mols = Aliased(loaded_molecules.mols, molecules')]
    /\ Ok(pc + 1)
    /\ UNCHANGED <<caught, topo, ligand, mol_i, conf_i, output, ffv, iov, compared>>

\* for conformer_index, conformer in enumerate(molecule.conformers):
ForConf ==
    /\ At("for_conf")
    /\ IF conf_i < Len(molecules[mol_i].conformers)
       THEN /\ conf_i' = conf_i + 1
            /\ Ok(pc + 1)
       ELSE /\ conf_i' = conf_i
            /\ Ok(IndexOf(Cur.arg) + 1)
    /\ UNCHANGED <<caught, topo, ligand, loaded_molecules, molecules, mol_i, output, ffv, iov, compared>>

\* the end of a loop body: control returns to the head of the loop
NextConf ==
    /\ At("next_conf")
    /\ Ok(IndexOf(Cur.arg))
    /\ UNCHANGED data

NextMol ==
    /\ At("next_mol")
    /\ Ok(IndexOf(Cur.arg))
    /\ UNCHANGED data

\* output = [["Conformer", "Initial PE (kcal/mol)", ...]]
OutInit ==
    /\ At("out_init")
    /\ output' = <<"header">>
    /\ Ok(pc + 1)
    /\ UNCHANGED <<caught, topo, ligand, loaded_molecules, molecules, mol_i, conf_i,
                   ffv, iov, compared>>

\* output.append([str(conformer_index + 1), ...])
OutAppend ==
    /\ At("out_append")
    /\ output' = Append(output, ToString(conf_i))
    /\ Ok(pc + 1)
    /\ UNCHANGED <<caught, topo, ligand, loaded_molecules, molecules, mol_i, conf_i,
                   ffv, iov, compared>>

\* mol_copy.to_file(f"{molecule.name}_conf{conformer_index+1}_minimized.sdf", ...)
ToFile ==
    /\ At("to_file")
    /\ files' = WriteFile(molecules[mol_i].name \o "_conf" \o ToString(conf_i)
                            \o "_minimized.sdf", "sdf")
    /\ Ok(pc + 1)
    /\ UNCHANGED <<caught, topo, ligand, confv, ffv, r, stdout, compared>>

\* mol_copy.to_file raises: before it has opened the file, or after, which
\* leaves the file empty or partly written
ToFileRaises ==
    /\ At("to_file")
    /\ files' \in Interrupted(molecules[mol_i].name \o "_conf" \o ToString(conf_i)
                                \o "_minimized.sdf", "sdf")
    /\ Fail("LibraryError")
    /\ UNCHANGED <<caught, topo, ligand, confv, ffv, r, stdout, compared>>

\* with open(f"{molecule.name}.csv", "w") as of: ...
Csv ==
    /\ At("csv")
    /\ files' = WriteFile(molecules[mol_i].name \o ".csv", Lines(Len(output)))
    /\ Ok(pc + 1)
    /\ UNCHANGED <<caught, topo, ligand, confv, ffv, r, stdout, compared>>

\* the CSV statement raises: open itself, or a write or the close at the
\* end of the with block.  The rows are buffered and reach the file in
\* blocks, so the file is cut anywhere: it holds nothing, the first rows of
\* output in full (Lines), or the first rows ending inside a row (Partial:
\* Partial(Lines(n)) is the first n - 1 rows and the beginning of row n)
CsvRaises ==
    /\ At("csv")
    /\ \/ files' = files
       \/ files' = WriteFile(molecules[mol_i].name \o ".csv", "")
       \/ \E written \in 1..Len(output) :
             \E content \in {Lines(written), Partial(Lines(written))} :
                files' = WriteFile(molecules[mol_i].name \o ".csv", content)
    /\ Fail("LibraryError")
    /\ UNCHANGED <<caught, topo, ligand, confv, ffv, r, stdout, compared>>

(* ---------------- BRD4: dynamics --------------------------------------- *)
\* simulation.step(1000) with nc_reporter = NetCDFReporter("trajectory.nc", 10)
\* in simulation.reporters: the reporter writes the trajectory file
Step ==
    /\ At("step")
    /\ files' = WriteFile(Cur.arg, "trajectory")
    /\ Ok(pc + 1)
    /\ UNCHANGED <<caught, topo, ligand, confv, ffv, r, stdout, compared>>

\* simulation.step(1000) raises: before the reporter has opened its file,
\* when it opens it, or after it has written frames
StepRaises ==
    /\ At("step")
    /\ \E written \in {"nothing", "opened", "frames"} :
          files' = CASE written = "nothing" -> files
                     [] written = "opened" -> WriteFile(Cur.arg, "")
                     [] written = "frames" -> WriteFile(Cur.arg, "trajectory")
    /\ Fail("LibraryError")
    /\ UNCHANGED <<caught, topo, ligand, confv, ffv, r, stdout, compared>>

(* ---------------- conversion notebook: the NonbondedForce -------------- *)
\* for force in omm_system.getForces(): if isinstance(force, NonbondedForce): break
Search ==
    /\ At("search")
    /\ IF ~systems["omm_system"].bound
       THEN Fail("NameError") /\ UNCHANGED force
       ELSE /\ \E fs \in ForceLists : force' = search_loop(fs, 1)
            /\ Ok(pc + 1)
    /\ UNCHANGED <<caught, topo, ligand, confv, systems, structures, iov, compared>>

\* force.getCutoffDistance() and the like: a NameError when the loop bound
\* no force, an AttributeError when the force is not a NonbondedForce
ForceCall ==
    /\ At("force_call")
    /\ CASE force.force = "unbound" -> Fail("NameError")
         [] force.force = "NonbondedForce" -> Ok(pc + 1)
         [] OTHER -> Fail("AttributeError")
    /\ UNCHANGED data

(* ---------------- conversion notebook: validation ---------------------- *)
\* a comparison that reports different parameters without raising
CmpParams_Returns ==
    /\ At("cmp_params")
    /\ IF ~(systems["omm_system"].bound /\ systems["amber_system"].bound)
       THEN Fail("NameError") /\ UNCHANGED compared
       ELSE /\ \E equal \in BOOLEAN :
                 compared' = [compared EXCEPT !.parameters =
                                 IF equal THEN "equal" ELSE "different"]
            /\ Ok(pc + 1)
    /\ UNCHANGED <<caught, topo, ligand, confv, ffv, iov>>

\* compare_system_parameters(omm_system, amber_system): returns when the
\* parameters are equal and raises FailedParameterComparisonError otherwise
CmpParams ==
    /\ At("cmp_params")
    /\ IF ~(systems["omm_system"].bound /\ systems["amber_system"].bound)
       THEN Fail("NameError") /\ UNCHANGED compared
       ELSE \E equal \in BOOLEAN :
              IF equal
              THEN /\ compared' = [compared EXCEPT !.parameters = "equal"]
                   /\ Ok(pc + 1)
              ELSE /\ compared' = [compared EXCEPT !.parameters = "different"]
                   /\ Fail("FailedParameterComparisonError")
    /\ UNCHANGED <<caught, topo, ligand, confv, ffv, iov>>

\* amber_energies, omm_energies = compare_system_energies(..., rtol=1e-3):
\* returns the energies by force when they agree within rtol and raises
\* FailedEnergyComparisonError otherwise
CmpEnergies ==
    /\ At("cmp_energies")
    /\ IF ~(systems["omm_system"].bound /\ systems["amber_system"].bound)
       THEN Fail("NameError") /\ UNCHANGED compared
       ELSE \E close \in BOOLEAN :
              IF close
              THEN /\ compared' = [compared EXCEPT !.energies = "within rtol"]
                   /\ Ok(pc + 1)
              ELSE /\ compared' = [compared EXCEPT !.energies = "beyond rtol"]
                   /\ Fail("FailedEnergyComparisonError")
    /\ UNCHANGED <<caught, topo, ligand, confv, ffv, iov>>

(* ---------------- printing --------------------------------------------- *)
EnergyNames == {"amber_energies", "omm_energies"}

\* print(...): the text is built before anything is written
Show ==
    /\ At("print")
    /\ stdout' = Append(stdout,
            IF Cur.arg = "n_molecules"
            THEN OutLine(Cur.arg, Len(molecules), SumConformers(molecules))
            ELSE OutLine(Cur.arg, 0, 0))
    /\ Ok(pc + 1)
    /\ UNCHANGED <<caught, topo, ligand, confv, ffv, r, files, compared>>

\* pprint(amber_energies) / pprint(omm_energies); the names are bound only
\* once compare_system_energies has returned
Pprint ==
    /\ At("pprint")
    /\ IF compared.energies # "within rtol"
       THEN Fail("NameError") /\ UNCHANGED stdout
       ELSE /\ stdout' = Append(stdout, OutLine(Cur.arg, 0, 0))
            /\ Ok(pc + 1)
    /\ UNCHANGED <<caught, topo, ligand, confv, ffv, r, files, compared>>

\* pprint writes the entries one after the other: when the repr of an entry
\* raises, nothing or a part of the text is written
PprintRaises ==
    /\ At("pprint")
    /\ compared.energies = "within rtol"
    /\ \/ UNCHANGED stdout
       \/ stdout' = Append(stdout, OutLine(Partial(Cur.arg), 0, 0))
    /\ Fail("LibraryError")
    /\ UNCHANGED <<caught, topo, ligand, confv, ffv, r, files, compared>>

(* ---------------- specification ---------------------------------------- *)
Next ==
    \/ Call \/ Raise \/ WriteRaises \/ FixRaises \/ CollateRaises \/ CsvRaises
    \/ SaveRaises \/ CopyRaises \/ ToFileRaises \/ StepRaises
    \/ FixEnter \/ Step
    \/ IfSingle \/ OutInit \/ OutAppend \/ Search \/ ForceCall
    \/ Pprint \/ PprintRaises
    \/ TryImport \/ ImportCaught \/ ExceptImport \/ ExceptImportFails
    \/ Get \/ Write \/ LoadPdb \/ Fix \/ Ligand \/ IfNone \/ Patch
    \/ Create \/ Convert \/ Add \/ Save \/ Reload
    \/ Copy \/ FromFile \/ Cast \/ Collate
    \/ ForMol \/ IfNoName \/ Name \/ ForConf \/ NextConf \/ NextMol
    \/ ToFile \/ Csv
    \/ CmpParams \/ CmpEnergies
    \/ Show

Spec == Init /\ [][Next]_vars

(* ======================= properties ==================================== *)
Range(q) == {q[i] : i \in 1..Len(q)}

\* every completion of statement b comes after a completion of statement a:
\* of the completions of the two (two different statements), the first is
\* one of a
Before(a, b) ==
    LET s == SelectSeq(log, LAMBDA l : l = a \/ l = b)
    IN  s = <<>> \/ s[1] = a

Count(l) == Cardinality({i \in 1..Len(log) : log[i] = l})

\* what the file of that name holds
FileContent(name) == {f.content : f \in {g \in files : g.name = name}}

(* ---------------- C1 --------------------------------------------------- *)
\* the steps of the BRD4 notebook the claim names, in the claimed order
BRD4Steps ==
    << {"requests.get system.pdb", "write system.pdb",
        "requests.get ligand.sdf", "write ligand.sdf"},
       {"PDBFile(system.pdb)", "Molecule.from_file(ligand.sdf)"},
       {"registerTemplateGenerator"},
       {"forcefield.createSystem"},
       {"load_topology"},
       {"save new-system.pdb", "save complex-openff.prmtop",
        "save complex-openff.inpcrd", "save complex-openff.gro",
        "save complex-openff.top"},
       {"minimizeEnergy", "step(1000)"} >>

\* C1: in a run of the BRD4 notebook, a statement of one step (retrieval,
\* loading, template registration, createSystem, Structure conversion, export,
\* minimization and dynamics) completes only after every statement of the
\* step before it has completed; so createSystem never precedes the
\* registration and no file is exported before the Structure exists.
C1_StepsInOrder ==
    nb = "brd4" =>
        /\ \A p \in 2..Len(BRD4Steps) :
              \A b \in BRD4Steps[p] : \A a \in BRD4Steps[p - 1] : Before(a, b)
        /\ \A f \in files :
              f.content = "complex_structure" => structures["complex_structure"].bound

C1_Witness ==
    /\ nb = "brd4"
    /\ status = "done"
    /\ "step(1000)" \in Range(log)
    /\ \E f \in files : f.name = "complex-openff.top"

(* ---------------- C2 --------------------------------------------------- *)
\* C2 as stated: whatever a statement raises stops the run at that statement;
\* no statement that raised is followed by another statement.
C2_Original ==
    \A l \in caught \cup ({failed} \ {"none"}) : status = "error" /\ failed = l

\* C2 amended: the only exception the notebooks catch is the ImportError of an
\* openmm import in a try block, which is answered by the simtk import of
\* its except clause; every other exception stops the run at the statement
\* that raised it (the statement does not complete, control does not move)
\* and no statement is executed after it.
C2_Amended ==
    [][ /\ status # "error"
        /\ caught' # caught =>
              /\ Cur.k = "try"
              /\ pc' = pc + 1 /\ Prog[pc'].k = "except"
              /\ status' = "running" /\ failed' = failed /\ log' = log
        /\ failed' # failed =>
              /\ status' = "error" /\ err' # "none"
              /\ failed' = Cur.l /\ pc' = pc /\ log' = log
              /\ caught' = caught ]_vars

C2_Witness ==
    /\ caught # {}
    /\ status = "error"
    /\ err \in {"LibraryError", "ImportError"}
    /\ failed \notin caught

(* ---------------- C3 --------------------------------------------------- *)
\* statements whose execution depends on the environment or on data
GuardedKinds == {"try", "except", "patch", "cast", "name"}

\* C3 as stated: a run that completes has executed every statement of its
\* notebook (the guarded imports apart): none is skipped depending on data.
C3_Original ==
    status = "done" =>
        \A i \in 1..Len(Prog) :
            Prog[i].k \notin {"try", "except"} => Prog[i].l \in Range(log)

InLoop(i, head, end) ==
    /\ nb = "conformer"
    /\ IndexOf(head) <= i
    /\ i <= IndexOf(end)

\* how often statement i runs in a run that completes
Times(i) ==
    LET inMol == InLoop(i, "for molecule in molecules", "end for molecule")
        inConf == InLoop(i, "for conformer in molecule.conformers", "end for conformer")
    IN CASE Prog[i].k = "for_mol" -> Len(molecules) + 1
         [] Prog[i].k = "for_conf" -> SumConformers(molecules) + Len(molecules)
         [] inConf /\ Prog[i].k # "for_conf" -> SumConformers(molecules)
         [] inMol /\ ~inConf /\ Prog[i].k # "for_mol" -> Len(molecules)
         [] OTHER -> 1

\* the loaded molecules after the first that differ from the one before
\* them: the ones the collation appends
Appended ==
    {j \in 2..Len(loaded_molecules.mols) :
        ~MoleculeEq(loaded_molecules.mols[j], loaded_molecules.mols[j - 1])}

\* the position at which the search for the NonbondedForce stops
FirstNonbonded(fs) ==
    IF \E j \in 1..Len(fs) : fs[j] = "NonbondedForce"
    THEN CHOOSE j \in 1..Len(fs) :
            /\ fs[j] = "NonbondedForce"
            /\ \A k \in 1..(j - 1) : fs[k] # "NonbondedForce"
    ELSE Len(fs)

\* how often each statement has run when the run completes: once per item of
\* the loops around it unless it is under a condition; and how often the
\* loops inside one statement have run
C3_Counts ==
    /\ status = "error" => Cur.l = failed
    /\ status = "done" =>
          \A i \in 1..Len(Prog) :
              LET s == Prog[i] IN
              /\ s.k \notin GuardedKinds => Count(s.l) = Times(i)
              /\ s.k = "patch" =>
                    /\ Count(s.l) = 1 <=> ligand.partial_charges = "zeros"
                    /\ Count(s.l) = 0 <=> ligand.partial_charges = "from file"
              /\ s.k = "cast" =>
                    (Count(s.l) = 1 <=> Len(loaded_molecules.mols) = 1)
              /\ s.k = "name" =>
                    Count(s.l) = Cardinality({m \in 1..Len(molecules) :
                                   molecules[m].name \in {"hill_A", "hill_B"}})
              /\ s.k = "try" => (Count(s.l) = 1 <=> env = "openmm")
              /\ s.k = "except" => (Count(s.l) = 1 <=> env = "simtk")
    /\ "fix_water_bonds" \in Range(log) =>
          Len(pdb_bonds) - Len(bonds) = Len(bonds_to_delete(pdb_bonds))
    /\ "collate conformers" \in Range(log) =>
          /\ Len(molecules) = 1 + Cardinality(Appended)
          /\ SumConformers(molecules) = Len(loaded_molecules.mols)
    /\ "for force in getForces" \in Range(log) =>
          /\ force.tested = FirstNonbonded(force.forces)
          /\ force.force = IF force.forces = <<>> THEN "unbound"
                           ELSE force.forces[force.tested]
    /\ (Len(log) > 0 /\ log[Len(log)] = "write csv") =>
          FileContent(molecules[mol_i].name \o ".csv") =
              {Lines(1 + Len(molecules[mol_i].conformers))}

\* the kind of the statement control moves to
NextKind == IF pc' \in 1..Len(Prog) THEN Prog[pc'].k ELSE "end"

\* a statement that completes has then run at most once per item of the
\* loops around it
CompletedInBounds ==
    log' # log =>
        LET l == log'[Len(log')]
        IN /\ l = Cur.l
           /\ Cardinality({j \in 1..Len(log') : log'[j] = l}) <= Times(pc)

\* no statement completes more often than its loops have items, a test on
\* data sends control to the statement it guards exactly when its condition
\* holds, a guarded statement is reached from its test only, a fallback
\* import is entered only from the import that raised ImportError, and
\* nothing runs once an error has stopped the run
C3_Branches ==
    /\ CompletedInBounds
    /\ (At("if_none") /\ log' # log) =>
          (NextKind = "patch" <=> ligand.partial_charges = "None")
    /\ (At("if_single") /\ log' # log) =>
          (NextKind = "cast" <=> ~loaded_molecules.is_list)
    /\ (At("if_noname") /\ log' # log) =>
          (NextKind = "name" <=> molecules[mol_i].name = "")
    /\ (pc' # pc /\ NextKind = "patch") => Cur.k = "if_none"
    /\ (pc' # pc /\ NextKind = "cast") => Cur.k = "if_single"
    /\ (pc' # pc /\ NextKind = "name") => Cur.k = "if_noname"
    /\ (pc' # pc /\ NextKind = "except") =>
          (Cur.k = "try" /\ env # "openmm" /\ Cur.l \in caught')
    /\ status = "error" => UNCHANGED vars

\* C3 amended: no statement is repeated or retried after a failure (an
\* uncaught error ends the run at the statement that raised it), but the
\* statements are not on one unconditional path.  Under a condition on data
\* are: the partial-charges patch (run exactly when ligand.partial_charges is
\* None), the cast to a list (exactly when a single molecule was loaded), the
\* two branches of the collation (a loaded molecule is merged into the last
\* collated molecule when it equals it and appended otherwise), the name
\* assignment (exactly for a molecule without a name) and the end of the
\* search for the NonbondedForce (at the first NonbondedForce, or after the
\* last force); each simtk import runs exactly when the openmm import raised
\* ImportError.  In a loop a statement runs once per item: pop once per bond
\* between two hydrogens, the collation once per loaded molecule after the
\* first, the bodies of the loops over molecules and conformers once per
\* molecule and conformer, the CSV write once per row of output.  Every other
\* statement has run exactly once when the run completes.
C3_Amended == []C3_Counts /\ [][C3_Branches]_vars

C3_Witness ==
    /\ nb = "brd4"
    /\ status = "done"
    /\ "ligand.partial_charges = zeros" \notin Range(log)
    /\ ligand.partial_charges = "from file"

(* ---------------- C10 -------------------------------------------------- *)
\* C10: in the BRD4 dynamics check, positions are set before any energy
\* query, minimization or dynamics step, the reporter is attached before the
\* dynamics step, the energy is minimized before the velocities are set and
\* the velocities are set before simulation.step(1000).
C10_DynamicsOrder ==
    nb = "brd4" =>
        /\ Before("setPositions", "getPotentialEnergy initial")
        /\ Before("setPositions", "minimizeEnergy")
        /\ Before("setPositions", "step(1000)")
        /\ Before("setPositions", "getPotentialEnergy final")
        /\ Before("reporters.append", "step(1000)")
        /\ Before("minimizeEnergy", "setVelocitiesToTemperature")
        /\ Before("setVelocitiesToTemperature", "step(1000)")

C10_Witness ==
    /\ nb = "brd4"
    /\ Len(log) > 0
    /\ log[Len(log)] = "step(1000)"

(* ---------------- C4 --------------------------------------------------- *)
\* the System a notebook ends with
FinalSystem ==
    CASE nb = "brd4" -> "system"
      [] nb = "amber" -> "amber_system"
      [] nb = "t4" -> "complex_system"
      [] OTHER -> "system"

\* C4: every System converted into a Structure by load_topology was created
\* without constraints and without rigid water; a System has HBonds
\* constraints exactly when it was created from a Structure, and the System
\* a converting notebook ends with is such a System.
C4_ConstraintsOnlyFromStructure ==
    /\ \A v \in StructureVars :
          (structures[v].bound /\ structures[v].from \in SystemVars) =>
              (structures[v].constraints = "None" /\ ~structures[v].rigidWater)
    /\ \A v \in SystemVars :
          systems[v].bound =>
              (systems[v].constraints = "HBonds" <=> systems[v].from \in StructureVars)
    /\ (status = "done" /\ nb # "conformer") =>
          /\ systems[FinalSystem].bound
          /\ systems[FinalSystem].from \in StructureVars
          /\ systems[FinalSystem].constraints = "HBonds"

C4_Witness ==
    /\ nb = "t4"
    /\ status = "done"
    /\ structures["toluene_structure"].bound
    /\ structures["t4_structure"].bound
    /\ systems["complex_system"].constraints = "HBonds"

(* ---------------- C5 --------------------------------------------------- *)
IsHH(bond) == (bond.atom1 = hydrogen) /\ (bond.atom2 = hydrogen)

\* C5: once fix_water_bonds has returned, no bond of the topology joins two
\* hydrogen atoms.
C5_NoHydrogenHydrogenBond ==
    "fix_water_bonds" \in Range(log) => \A i \in 1..Len(bonds) : ~IsHH(bonds[i])

C5_Witness ==
    /\ "fix_water_bonds" \in Range(log)
    /\ Cardinality({i \in 1..Len(pdb_bonds) : IsHH(pdb_bonds[i])}) >= 2
    /\ Len(bonds) >= 1

(* ---------------- C6 --------------------------------------------------- *)
NonWater(bs) == SelectSeq(bs, LAMBDA b : b.residue # "HOH")

\* C6: fix_water_bonds removes only H1-H2 bonds of waters: the bonds of the
\* non-water residues are the same after the call as before it.
C6_NonWaterBondsUnchanged ==
    "fix_water_bonds" \in Range(log) => NonWater(bonds) = NonWater(pdb_bonds)

(* ---------------- C7 --------------------------------------------------- *)
\* C7: after the collation no two entries of molecules are equal molecules,
\* n_molecules is the number of unique molecules loaded, and every unique
\* molecule carries all the conformers loaded for it.
C7_CollatedUnique ==
    "collate conformers" \in Range(log) =>
        LET loaded == loaded_molecules.mols
            unique == {loaded[i].kind : i \in 1..Len(loaded)}
        IN /\ \A i, j \in 1..Len(molecules) :
                 i # j => ~MoleculeEq(molecules[i], molecules[j])
           /\ Len(molecules) = Cardinality(unique)
           /\ \A i \in 1..Len(molecules) :
                 Range(molecules[i].conformers) =
                     {c \in 1..Len(loaded) : loaded[c].kind = molecules[i].kind}

(* ---------------- C8 --------------------------------------------------- *)
EnergiesShown ==
    \E i \in 1..Len(stdout) :
        stdout[i].what \in EnergyNames \cup {Partial(e) : e \in EnergyNames}

\* C8: in the conversion notebook a failed parameter comparison or a failed
\* energy comparison stops the run with its error, so the energies are
\* printed only in runs in which both comparisons passed.
C8_ValidationGate ==
    nb = "amber" =>
        /\ compared.parameters = "different" =>
              (status = "error" /\ err = "FailedParameterComparisonError")
        /\ compared.energies = "beyond rtol" =>
              (status = "error" /\ err = "FailedEnergyComparisonError")
        /\ EnergiesShown =>
              (compared.parameters = "equal" /\ compared.energies = "within rtol")

C8_Witness ==
    /\ nb = "amber"
    /\ status = "done"
    /\ EnergiesShown

(* ---------------- C11 -------------------------------------------------- *)
\* the lines "N H-H bonds removed" printed so far
RemovedLines ==
    SelectSeq(stdout, LAMBDA line : line.what = "H-H bonds removed")

\* C11: the number fix_water_bonds prints is the number of bonds of the
\* input topology whose two atoms are both hydrogen (0 when there is none),
\* and it is printed once.
C11_PrintedCount ==
    "fix_water_bonds" \in Range(log) =>
        /\ Len(RemovedLines) = 1
        /\ RemovedLines[1].n =
              Cardinality({i \in 1..Len(pdb_bonds) : IsHH(pdb_bonds[i])})

C11_Witness ==
    /\ "fix_water_bonds" \in Range(log)
    /\ Len(RemovedLines) = 1
    /\ RemovedLines[1].n = 2
    /\ Len(pdb_bonds) = 3

(* ---------------- C12 -------------------------------------------------- *)
\* the bonds with at least one atom that is not hydrogen, in their order
Kept(bs) == SelectSeq(bs, LAMBDA b : ~IsHH(b))

\* C12: the call of fix_water_bonds leaves in the bond list exactly the bonds
\* that have a non-hydrogen atom, each the same Bond as before and in the same
\* relative order (so every deletion removed the bond that was at the
\* collected index), and it changes nothing else of the notebook's data.
C12_KeptBondsInOrder ==
    [][ (At("fix") /\ log' # log) =>
            /\ bonds' = Kept(bonds)
            /\ \A i \in 1..Len(bonds) :
                  ~IsHH(bonds[i]) => \E j \in 1..Len(bonds') : bonds'[j] = bonds[i]
            /\ UNCHANGED <<pdb_bonds, ligand, confv, ffv, r, files, compared, caught>> ]_vars

C12_Witness ==
    /\ "fix_water_bonds" \in Range(log)
    /\ Len(pdb_bonds) = 3
    /\ IsHH(pdb_bonds[1])
    /\ ~IsHH(pdb_bonds[2])
    /\ IsHH(pdb_bonds[3])
    /\ bonds = <<pdb_bonds[2]>>

(* ---------------- C13 -------------------------------------------------- *)

\* C13 as stated: the retrieval step asks for each entry of sources once and
\* writes the body of the response to the file of that entry whatever the
\* HTTP status: once a write has completed the file holds the body, and once
\* the last write has completed both files exist; the status of a response
\* never stops the run.
C13_Original ==
    nb = "brd4" =>
        /\ \A i \in 1..Len(sources) :
              /\ Count("requests.get " \o sources[i]) <= 1
              /\ Count("write " \o sources[i]) <= 1
              /\ (Len(log) > 0 /\ log[Len(log)] = "write " \o sources[i]) =>
                    /\ r.file = sources[i]
                    /\ FileContent(sources[i]) = {Text(r)}
        /\ "write ligand.sdf" \in Range(log) =>
              /\ \A i \in 1..Len(sources) :
                    /\ Count("requests.get " \o sources[i]) = 1
                    /\ Count("write " \o sources[i]) = 1
                    /\ HasFile(sources[i])
              /\ FileContent("ligand.sdf") = {Text(r)}
        /\ (status = "error" /\ Prog[pc].cell = 1) => err = "LibraryError"

\* C13 amended: the retrieval step asks for each entry of sources once and
\* writes the body of the response to the file of that entry without a check
\* of the HTTP status or of the outcome of the write: once the writes have
\* completed both files exist, also when a response was an HTTP error, and
\* each file holds the body of the response to its own request or, as the
\* file is never closed and an error of the final flush is ignored, a part
\* of that body or nothing; neither the status of a response nor a failed
\* flush stops the run.
C13_Amended ==
    nb = "brd4" =>
        /\ \A i \in 1..Len(sources) :
              /\ Count("requests.get " \o sources[i]) <= 1
              /\ Count("write " \o sources[i]) <= 1
              /\ (Len(log) > 0 /\ log[Len(log)] = "write " \o sources[i]) =>
                    /\ r.file = sources[i]
                    /\ \E content \in Flushed(Text(r)) :
                          FileContent(sources[i]) = {content}
        /\ "write ligand.sdf" \in Range(log) =>
              /\ \A i \in 1..Len(sources) :
                    /\ Count("requests.get " \o sources[i]) = 1
                    /\ Count("write " \o sources[i]) = 1
                    /\ HasFile(sources[i])
              /\ \E content \in Flushed(Text(r)) :
                    FileContent("ligand.sdf") = {content}
        /\ (status = "error" /\ Prog[pc].cell = 1) => err = "LibraryError"

C13_Witness ==
    /\ nb = "brd4"
    /\ status = "running"
    /\ Len(log) > 0
    /\ log[Len(log)] = "write ligand.sdf"
    /\ r.status_code = 404
    /\ FileContent("ligand.sdf") = {"error page"}
    /\ FileContent("system.pdb") = {Partial("file")}

====
